---- MODULE Spec2Model ----
(***************************************************************************)
(* Gesture-Control: the per-frame decision loop of main.py (console        *)
(* driver) and gui_main.py (PyQt driver, GestureGui.update_frame), with    *)
(* the hold timers, the mode selector, the click arming, the volume        *)
(* mapping and the painter canvas.                                         *)
(*                                                                         *)
(* Time is counted in whole seconds, as time.time() would return them      *)
(* rounded; 0 is the "unset" value of every timer in the source and is     *)
(* never a value of the clock.  Colours are BGR triples as in OpenCV.      *)
(* The canvas is observed at a few sample pixels (Pixels).                 *)
(***************************************************************************)
EXTENDS Integers, Sequences, FiniteSets, TLC

VARIABLES
    driver,             \* "main" (main.py) or "gui" (gui_main.py)
    cap_open,           \* the camera is open and frames are being processed
    clock,              \* the last value returned by time.time()
    current_mode, selecting_mode, click_armed,
    select_mode_start, screenshot_start, hover_start, hovered_icon,
    xp, yp, brush_thickness, draw_color, draw_color_name, last_color,
    img_canvas,
    volume_ok,          \* volume is not None (an audio endpoint was found)
    acts,               \* actuator calls made by the last step, in order
    step,               \* the name of the last step
    obs,                \* what the last frame observed and which branch ran
    hist,               \* history of the observed gestures (see Track)
    call,               \* a function of the program applied on its own:
                        \* its name and arguments (NoCall in the frame loop)
    ret                 \* the value that call returned (NoCall before it)

progVars == <<current_mode, selecting_mode, click_armed, select_mode_start,
              screenshot_start, hover_start, hovered_icon, xp, yp,
              brush_thickness, draw_color, draw_color_name, last_color,
              img_canvas>>

vars == <<driver, cap_open, clock, progVars, volume_ok, acts, step, obs, hist,
          call, ret>>

-----------------------------------------------------------------------------
(* Program constants *)

CAM_WIDTH == 640
CAM_HEIGHT == 480
ICON_SIZE_MAIN == 100
ICON_SIZE_GUI == 80
SCROLL_AMOUNT == 40
MODE_SELECT_HOLD == 2
SCREENSHOT_HOLD == 2
HOVER_HOLD == 1
VOL_LEN_LO == 20
VOL_LEN_HI == 200
MASK_THRESHOLD == 250
THICK_BRUSH == 20
THIN_BRUSH == 5
INIT_BRUSH == 10
SCREEN_WIDTH == 1920
SCREEN_HEIGHT == 1080
VOL_MIN == -65
VOL_MAX == 0

ICON_SIZE(drv) == IF drv = "main" THEN ICON_SIZE_MAIN ELSE ICON_SIZE_GUI

ModeNames == <<"mouse", "volume", "painter", "scroll">>

mode_icon_positions(drv) ==
    IF drv = "main"
    THEN <<(<<40, 20>>), (<<180, 20>>), (<<320, 20>>), (<<460, 20>>)>>
    ELSE <<(<<40, 20>>), (<<140, 20>>), (<<240, 20>>), (<<340, 20>>)>>

PainterNames == <<"red", "green", "blue", "thick", "thin", "eraser">>

painter_icon_positions(drv) ==
    IF drv = "main"
    THEN <<(<<10, 20>>), (<<115, 20>>), (<<220, 20>>),
           (<<325, 20>>), (<<430, 20>>), (<<535, 20>>)>>
    ELSE <<(<<10, 20>>), (<<110, 20>>), (<<210, 20>>),
           (<<310, 20>>), (<<410, 20>>), (<<510, 20>>)>>

RED == <<0, 0, 255>>
GREEN == <<0, 255, 0>>
BLUE == <<255, 0, 0>>
WHITE == <<255, 255, 255>>

-----------------------------------------------------------------------------
(* Bounds of the model *)

MaxTime == 7            \* frames are processed while the clock is below this
MaxStep == 2            \* seconds between two frames: 0..MaxStep


-----------------------------------------------------------------------------
(* Small helpers *)

Zero == <<0, 0, 0, 0, 0>>

\* fingers[k] of the source (0-based: 0 thumb, 1 index, 2 middle, 3 ring, 4 pinky)
Up(fingers, k) == fingers[k + 1] = 1

\* sum(fingers)
SumFingers(fingers) ==
    fingers[1] + fingers[2] + fingers[3] + fingers[4] + fingers[5]

\* any(fingers[2:])
AnyFrom2(fingers) == Up(fingers, 2) \/ Up(fingers, 3) \/ Up(fingers, 4)

\* One actuator call.  x, y carry the arguments (0 where there is none);
\* interpolated arguments are kept as exact numerators, see Interp.
Act(name, x, y) == [name |-> name, x |-> x, y |-> y]

Emit(s, a) == [s EXCEPT !.acts = Append(@, a)]

\* The program state of the running driver as one record.
State ==
    [current_mode |-> current_mode, selecting_mode |-> selecting_mode,
     click_armed |-> click_armed, select_mode_start |-> select_mode_start,
     screenshot_start |-> screenshot_start, hover_start |-> hover_start,
     hovered_icon |-> hovered_icon, xp |-> xp, yp |-> yp,
     brush_thickness |-> brush_thickness, draw_color |-> draw_color,
     draw_color_name |-> draw_color_name, last_color |-> last_color,
     img_canvas |-> img_canvas, volume_ok |-> volume_ok, acts |-> <<>>]

\* The next state of the running driver is the record r.
Becomes(r) ==
    /\ current_mode' = r.current_mode
    /\ selecting_mode' = r.selecting_mode
    /\ click_armed' = r.click_armed
    /\ select_mode_start' = r.select_mode_start
    /\ screenshot_start' = r.screenshot_start
    /\ hover_start' = r.hover_start
    /\ hovered_icon' = r.hovered_icon
    /\ xp' = r.xp
    /\ yp' = r.yp
    /\ brush_thickness' = r.brush_thickness
    /\ draw_color' = r.draw_color
    /\ draw_color_name' = r.draw_color_name
    /\ last_color' = r.last_color
    /\ img_canvas' = r.img_canvas
    /\ acts' = r.acts

-----------------------------------------------------------------------------
(* HandTrackingModule.py *)

\* handDetector.fingersUp as the frame loop sees it: all zeros for a landmark
\* list shorter than 21, else the classification sig of the 21 landmarks.
fingersSeen(n, sig) == IF n < 21 THEN Zero ELSE sig

\* handDetector.tipIds
tipIds == <<4, 8, 12, 16, 20>>

\* lmList[i] of the source (0-based), an entry <<id, x, y>>
Landmark(lmList, i) == lmList[i + 1]

\* variant of fingersUp: the thumb test mirrored
fingersUp_mirrored(lmList) ==
    IF Len(lmList) < 21 THEN <<0, 0, 0, 0, 0>>
    ELSE [i \in 1..5 |->
            IF i = 1
            THEN IF Landmark(lmList, tipIds[1])[2] < Landmark(lmList, tipIds[1] - 1)[2]
                 THEN 1 ELSE 0
            ELSE IF Landmark(lmList, tipIds[i])[3] < Landmark(lmList, tipIds[i] - 2)[3]
                 THEN 1 ELSE 0]

\* handDetector.fingersUp on the landmark list lmList
fingersUp(lmList) ==
    IF Len(lmList) < 21 THEN <<0, 0, 0, 0, 0>>
    ELSE [i \in 1..5 |->
            IF i = 1
            THEN IF Landmark(lmList, tipIds[1])[2] > Landmark(lmList, tipIds[1] - 1)[2]
                 THEN 1 ELSE 0
            ELSE IF Landmark(lmList, tipIds[i])[3] < Landmark(lmList, tipIds[i] - 2)[3]
                 THEN 1 ELSE 0]

\* floor of the square root (math.hypot gives a float; the lengths used here
\* are exact squares or are only compared against 20 and 200)
Abs(x) == IF x < 0 THEN -x ELSE x

Hypot(dx, dy) ==
    LET a == Abs(dx)
        b == Abs(dy)
        k == a * a + b * b
    IN CHOOSE r \in (IF a > b THEN a ELSE b)..(a + b) :
           r * r <= k /\ (r + 1) * (r + 1) > k

\* handDetector.findDistance(p1, p2): 0 when a landmark is missing
findDistance(n, p1, p2, a, b) ==
    IF n <= (IF p1 > p2 THEN p1 ELSE p2) THEN 0
    ELSE Hypot(b[1] - a[1], b[2] - a[2])

-----------------------------------------------------------------------------
(* numpy.interp(x, (x0, x1), (y0, y1)) with x0 < x1: linear between the two   *)
(* points, clamped to y0 below x0 and to y1 above x1.  The value is the      *)
(* rational Interp / (x1 - x0); the numerator is kept so that it stays exact. *)

\* (variant: no clamping above x1)
Interp_extrapolate(x, x0, x1, y0, y1) ==
    IF x <= x0 THEN y0 * (x1 - x0)
    ELSE y0 * (x1 - x0) + (x - x0) * (y1 - y0)

Interp(x, x0, x1, y0, y1) ==
    IF x <= x0 THEN y0 * (x1 - x0)
    ELSE IF x >= x1 THEN y1 * (x1 - x0)
    ELSE y0 * (x1 - x0) + (x - x0) * (y1 - y0)

-----------------------------------------------------------------------------
(* Icon hit tests *)

\* x < px < x + size and y < py < y + size
InsideIcon(pos, icon, size) ==
    /\ icon[1] < pos[1] /\ pos[1] < icon[1] + size
    /\ icon[2] < pos[2] /\ pos[2] < icon[2] + size

\* the first mode icon (0-based, as in the source) that holds pos, or -1
HitModeIcon(drv, pos) ==
    LET hits == {i \in 0..3 :
                   InsideIcon(pos, mode_icon_positions(drv)[i + 1], ICON_SIZE(drv))}
    IN IF hits = {} THEN -1 ELSE CHOOSE i \in hits : \A j \in hits : i <= j

\* the painter icons that hold pos (names)
HitPainterIcons(drv, pos) ==
    {PainterNames[i] : i \in {j \in 1..6 :
        InsideIcon(pos, painter_icon_positions(drv)[j], ICON_SIZE(drv))}}


-----------------------------------------------------------------------------
(* The canvas, observed at the sample pixels *)

Pixels == {<<0, 0>>, <<60, 50>>, <<60, 58>>, <<155, 50>>}

BlankCanvas == [r \in Pixels |-> WHITE]

Dist2(a, b) == (a[1] - b[1]) * (a[1] - b[1]) + (a[2] - b[2]) * (a[2] - b[2])

\* Pixel r lies within t/2 of the segment from p to q (cv2.line draws the
\* segment with round caps; with p = q that is a dot of diameter t at p).
\* Beside the segment the distance is |cross| / |pq|, compared without
\* squaring so that the products stay small.
OnStroke(r, p, q, t) ==
    LET dx == q[1] - p[1]
        dy == q[2] - p[2]
        len2 == dx * dx + dy * dy
        dot == (r[1] - p[1]) * dx + (r[2] - p[2]) * dy
        cross == (r[1] - p[1]) * dy - (r[2] - p[2]) * dx
    IN IF len2 = 0 \/ dot <= 0 THEN 4 * Dist2(r, p) <= t * t
       ELSE IF dot >= len2 THEN 4 * Dist2(r, q) <= t * t
       ELSE 2 * Abs(cross) <= t * Hypot(dx, dy)

\* cv2.line(canvas, p, q, color, thickness)
DrawLine(canvas, p, q, color, t) ==
    [r \in Pixels |-> IF OnStroke(r, p, q, t) THEN color ELSE canvas[r]]

\* cv2.cvtColor(., COLOR_BGR2GRAY) of one BGR pixel: the 14-bit fixed-point
\* weights of OpenCV, rounded
Gray(c) == (c[3] * 4899 + c[2] * 9617 + c[1] * 1868 + 8192) \div 16384

\* cv2.threshold(mask, 250, 255, THRESH_BINARY_INV) of one grey level
MaskInv(g) == IF g > MASK_THRESHOLD THEN 0 ELSE 255

\* cv2.bitwise_and of a channel value with a mask value, which is 0 or 255
BitAnd(v, m) == IF m = 255 THEN v ELSE 0

\* cv2.add of two channel values (saturating)
SatAdd(a, b) == IF a + b > 255 THEN 255 ELSE a + b

\* variant of the compositing: the frame is not masked out under the strokes
overlay_pixel_blend(f, c) ==
    LET m == MaskInv(Gray(c))
    IN [ch \in 1..3 |-> SatAdd(f[ch], BitAnd(c[ch], m))]

\* overlay_canvas / overlay_canvas_on_frame at one pixel: frame pixel f,
\* canvas pixel c
overlay_pixel(f, c) ==
    LET m == MaskInv(Gray(c))
    IN [ch \in 1..3 |-> SatAdd(BitAnd(f[ch], 255 - m), BitAnd(c[ch], m))]

\* overlay_canvas(img, canvas)
overlay_canvas(img, canvas) ==
    [r \in DOMAIN canvas |-> overlay_pixel(img[r], canvas[r])]

-----------------------------------------------------------------------------
(* The gesture logic of one frame, as functions of the state record s *)

\* (variant: another signature leaves the timer running)
ScreenshotTrigger_keeps(s, fingers, now) ==
    IF fingers = Zero
    THEN IF s.screenshot_start = 0
         THEN [s EXCEPT !.screenshot_start = now]
         ELSE IF now - s.screenshot_start >= SCREENSHOT_HOLD
              THEN [Emit(s, Act("Screenshot", 0, 0)) EXCEPT !.screenshot_start = 0]
              ELSE s
    ELSE s

\* (variant: the hold must be exceeded, not reached)
ScreenshotTrigger_strict(s, fingers, now) ==
    IF fingers = Zero
    THEN IF s.screenshot_start = 0
         THEN [s EXCEPT !.screenshot_start = now]
         ELSE IF now - s.screenshot_start > SCREENSHOT_HOLD
              THEN [Emit(s, Act("Screenshot", 0, 0)) EXCEPT !.screenshot_start = 0]
              ELSE s
    ELSE [s EXCEPT !.screenshot_start = 0]

\* (variant: the timer is left running when the Screenshot is taken)
ScreenshotTrigger_norearm(s, fingers, now) ==
    IF fingers = Zero
    THEN IF s.screenshot_start = 0
         THEN [s EXCEPT !.screenshot_start = now]
         ELSE IF now - s.screenshot_start >= SCREENSHOT_HOLD
              THEN Emit(s, Act("Screenshot", 0, 0))
              ELSE s
    ELSE [s EXCEPT !.screenshot_start = 0]

\* Screenshot: fist for SCREENSHOT_HOLD seconds
ScreenshotTrigger(s, fingers, now) ==
    IF fingers = Zero
    THEN IF s.screenshot_start = 0
         THEN [s EXCEPT !.screenshot_start = now]
         ELSE IF now - s.screenshot_start >= SCREENSHOT_HOLD
              THEN [Emit(s, Act("Screenshot", 0, 0)) EXCEPT !.screenshot_start = 0]
              ELSE s
    ELSE [s EXCEPT !.screenshot_start = 0]

\* Mode selection: 5 fingers for MODE_SELECT_HOLD seconds
ModeSelectEntry(s, fingers, now) ==
    IF SumFingers(fingers) = 5
    THEN IF s.select_mode_start = 0
         THEN [s EXCEPT !.select_mode_start = now]
         ELSE IF now - s.select_mode_start > MODE_SELECT_HOLD
              THEN [s EXCEPT !.selecting_mode = TRUE]
              ELSE s
    ELSE [s EXCEPT !.select_mode_start = 0]

\* (variant: the dwell commits on reaching HOVER_HOLD)
check_hover_reached(drv, s, index_pos, now) ==
    LET i == HitModeIcon(drv, index_pos)
    IN IF i = -1 THEN [s EXCEPT !.hovered_icon = -1]
       ELSE IF s.hovered_icon = i
            THEN IF now - s.hover_start >= HOVER_HOLD
                 THEN [s EXCEPT !.current_mode = ModeNames[i + 1],
                                !.selecting_mode = FALSE,
                                !.hovered_icon = IF drv = "gui" THEN -1 ELSE @]
                 ELSE s
            ELSE [s EXCEPT !.hovered_icon = i, !.hover_start = now]

\* check_hover (main.py) / GestureGui._check_hover (gui_main.py); both read
\* time.time() again, within the same frame
check_hover(drv, s, index_pos, now) ==
    LET i == HitModeIcon(drv, index_pos)
    IN IF i = -1 THEN [s EXCEPT !.hovered_icon = -1]
       ELSE IF s.hovered_icon = i
            THEN IF now - s.hover_start > HOVER_HOLD
                 THEN [s EXCEPT !.current_mode = ModeNames[i + 1],
                                !.selecting_mode = FALSE,
                                !.hovered_icon = IF drv = "gui" THEN -1 ELSE @]
                 ELSE s
            ELSE [s EXCEPT !.hovered_icon = i, !.hover_start = now]

\* the selecting_mode branch
SelectingBranch(drv, s, n, tip, now) ==
    IF n > 8 THEN check_hover(drv, s, tip, now) ELSE s

\* (variant: the cursor moves only while the thumb is down as well)
CursorMove_thumbdown(s, fingers, tip) ==
    IF SumFingers(fingers) = 1 /\ Up(fingers, 1)
    THEN Emit(s, Act("PointerMove",
                     Interp(tip[1], 0, CAM_WIDTH, 0, SCREEN_WIDTH),
                     Interp(tip[2], 0, CAM_HEIGHT, 0, SCREEN_HEIGHT)))
    ELSE s

\* mouse mode: cursor move
CursorMove(s, fingers, tip) ==
    IF Up(fingers, 1) /\ ~AnyFrom2(fingers)
    THEN Emit(s, Act("PointerMove",
                     Interp(tip[1], 0, CAM_WIDTH, 0, SCREEN_WIDTH),
                     Interp(tip[2], 0, CAM_HEIGHT, 0, SCREEN_HEIGHT)))
    ELSE s

\* (variant: lowering the middle finger alone drops the armed click)
ClickGestures_quietdrop(s, fingers) ==
    IF Up(fingers, 1) /\ Up(fingers, 2)
    THEN [s EXCEPT !.click_armed = TRUE]
    ELSE IF s.click_armed
         THEN IF ~Up(fingers, 1) /\ Up(fingers, 2)
              THEN [Emit(s, Act("LeftClick", 0, 0)) EXCEPT !.click_armed = FALSE]
              ELSE IF ~Up(fingers, 1) /\ ~Up(fingers, 2)
                   THEN [Emit(s, Act("RightClick", 0, 0)) EXCEPT !.click_armed = FALSE]
                   ELSE [s EXCEPT !.click_armed = FALSE]
         ELSE s

\* (variant: the left click leaves the click armed)
ClickGestures_stayarmed(s, fingers) ==
    IF Up(fingers, 1) /\ Up(fingers, 2)
    THEN [s EXCEPT !.click_armed = TRUE]
    ELSE IF s.click_armed
         THEN IF ~Up(fingers, 1) /\ Up(fingers, 2)
              THEN Emit(s, Act("LeftClick", 0, 0))
              ELSE IF ~Up(fingers, 1) /\ ~Up(fingers, 2)
                   THEN [Emit(s, Act("RightClick", 0, 0)) EXCEPT !.click_armed = FALSE]
                   ELSE s
         ELSE s

\* mouse mode: click gestures
ClickGestures(s, fingers) ==
    IF Up(fingers, 1) /\ Up(fingers, 2)
    THEN [s EXCEPT !.click_armed = TRUE]
    ELSE IF s.click_armed
         THEN IF ~Up(fingers, 1) /\ Up(fingers, 2)
              THEN [Emit(s, Act("LeftClick", 0, 0)) EXCEPT !.click_armed = FALSE]
              ELSE IF ~Up(fingers, 1) /\ ~Up(fingers, 2)
                   THEN [Emit(s, Act("RightClick", 0, 0)) EXCEPT !.click_armed = FALSE]
                   ELSE s
         ELSE s

MouseMode(s, fingers, tip) == ClickGestures(CursorMove(s, fingers, tip), fingers)

\* volume mode: vol = np.interp(length, [20, 200], [vol_min, vol_max]); the
\* emitted level is x / (VOL_LEN_HI - VOL_LEN_LO)
VolumeMode(s, n, thumb, tip) ==
    LET length == findDistance(n, 4, 8, thumb, tip)
    IN Emit(s, Act("SetVolume",
                   Interp(length, VOL_LEN_LO, VOL_LEN_HI, VOL_MIN, VOL_MAX), 0))

\* painter mode: one pass of the loop over painter_options for an icon hit
SelectTool(s, name) ==
    LET s1 == IF name = "thick"
              THEN [s EXCEPT !.brush_thickness = THICK_BRUSH,
                             !.draw_color_name = "thick"]
              ELSE IF name = "thin"
              THEN [s EXCEPT !.brush_thickness = THIN_BRUSH,
                             !.draw_color_name = "thin"]
              ELSE IF name = "eraser"
              THEN [s EXCEPT !.draw_color = WHITE, !.draw_color_name = "eraser"]
              ELSE LET c == IF name = "red" THEN RED
                            ELSE IF name = "green" THEN GREEN ELSE BLUE
                   IN [s EXCEPT !.draw_color = c, !.draw_color_name = name,
                                !.last_color = c]
    IN IF s1.draw_color_name # "eraser"
       THEN [s1 EXCEPT !.draw_color = s1.last_color]
       ELSE s1

RECURSIVE SelectToolsAt(_, _, _, _)
SelectToolsAt(drv, s, pos, k) ==
    IF k > Len(PainterNames) THEN s
    ELSE SelectToolsAt(drv,
            IF PainterNames[k] \in HitPainterIcons(drv, pos)
            THEN SelectTool(s, PainterNames[k]) ELSE s,
            pos, k + 1)

\* painter mode: select colour/tool by pointing at an icon
ToolSelection(drv, s, fingers, tip) ==
    IF Up(fingers, 1) /\ ~AnyFrom2(fingers)
    THEN SelectToolsAt(drv, s, tip, 1)
    ELSE s

\* painter mode: drawing when index and middle are up
\* variants of the drawing step: the first frame of a stroke only lowers the
\* pen; the pen position is used as it is, (0, 0) included
Drawing_nodot(s, fingers, tip) ==
    IF Up(fingers, 1) /\ Up(fingers, 2)
    THEN [s EXCEPT !.img_canvas =
                      IF s.xp = 0 /\ s.yp = 0 THEN @
                      ELSE DrawLine(@, <<s.xp, s.yp>>, tip, s.draw_color,
                                    s.brush_thickness),
                   !.xp = tip[1], !.yp = tip[2]]
    ELSE [s EXCEPT !.xp = 0, !.yp = 0]

Drawing(s, fingers, tip) ==
    IF Up(fingers, 1) /\ Up(fingers, 2)
    THEN LET p == IF s.xp = 0 /\ s.yp = 0 THEN tip ELSE <<s.xp, s.yp>>
         IN [s EXCEPT !.img_canvas =
                          DrawLine(@, p, tip, s.draw_color, s.brush_thickness),
                      !.xp = tip[1], !.yp = tip[2]]
    ELSE [s EXCEPT !.xp = 0, !.yp = 0]

PainterMode(drv, s, n, fingers, tip) ==
    IF n > 8 THEN Drawing(ToolSelection(drv, s, fingers, tip), fingers, tip)
    ELSE s

\* (variant: the ring finger is not looked at)
ScrollMode_ringignored(s, fingers) ==
    IF Up(fingers, 1) /\ Up(fingers, 2)
    THEN Emit(s, Act("ScrollBy", SCROLL_AMOUNT, 0))
    ELSE s

\* scroll mode
ScrollMode(s, fingers) ==
    IF Up(fingers, 1) /\ Up(fingers, 2) /\ ~Up(fingers, 3)
    THEN Emit(s, Act("ScrollBy", SCROLL_AMOUNT, 0))
    ELSE IF Up(fingers, 1) /\ Up(fingers, 2) /\ Up(fingers, 3)
         THEN Emit(s, Act("ScrollBy", -SCROLL_AMOUNT, 0))
         ELSE s

\* (variant: the mode's branch also runs while ModeSelecting is true)
Dispatch_whileselecting(drv, s, n, fingers, tip, thumb, now) ==
    LET d == IF s.selecting_mode THEN SelectingBranch(drv, s, n, tip, now) ELSE s
    IN IF s.current_mode = "mouse" /\ n > 12 THEN MouseMode(d, fingers, tip)
       ELSE IF s.current_mode = "volume" /\ n > 8 /\ s.volume_ok
            THEN VolumeMode(d, n, thumb, tip)
       ELSE IF s.current_mode = "painter" THEN PainterMode(drv, d, n, fingers, tip)
       ELSE IF s.current_mode = "scroll" THEN ScrollMode(d, fingers)
       ELSE d

\* the if/elif chain after the two hold timers
Dispatch(drv, s, n, fingers, tip, thumb, now) ==
    IF s.selecting_mode THEN SelectingBranch(drv, s, n, tip, now)
    ELSE IF s.current_mode = "mouse" /\ n > 12 THEN MouseMode(s, fingers, tip)
    ELSE IF s.current_mode = "volume" /\ n > 8 /\ s.volume_ok
         THEN VolumeMode(s, n, thumb, tip)
    ELSE IF s.current_mode = "painter" THEN PainterMode(drv, s, n, fingers, tip)
    ELSE IF s.current_mode = "scroll" THEN ScrollMode(s, fingers)
    ELSE s

\* gui_main.py only: "if not self.selecting_mode: self.hovered_icon = -1"
HoverReset(drv, s) ==
    IF drv = "gui" /\ ~s.selecting_mode THEN [s EXCEPT !.hovered_icon = -1] ELSE s

\* variant of the frame: a frame without a hand lifts the pen
ProcessFrame_nohandlifts(drv, s, n, sig, tip, thumb, now) ==
    LET fingers == IF n > 0 THEN fingersSeen(n, sig) ELSE Zero
    IN IF n > 0
       THEN HoverReset(drv,
              Dispatch(drv,
                ModeSelectEntry(ScreenshotTrigger(s, fingers, now), fingers, now),
                n, fingers, tip, thumb, now))
       ELSE HoverReset(drv, [s EXCEPT !.xp = 0, !.yp = 0])

\* One iteration of the main loop / one call of update_frame on a frame with
\* n landmarks (0: no hand), finger classification sig, index tip (landmark
\* 8) at tip and thumb tip (landmark 4) at thumb, at time now.
ProcessFrame(drv, s, n, sig, tip, thumb, now) ==
    LET fingers == IF n > 0 THEN fingersSeen(n, sig) ELSE Zero
    IN IF n > 0
       THEN HoverReset(drv,
              Dispatch(drv,
                ModeSelectEntry(ScreenshotTrigger(s, fingers, now), fingers, now),
                n, fingers, tip, thumb, now))
       ELSE HoverReset(drv, s)


-----------------------------------------------------------------------------
(* Inputs *)

\* landmark counts of a frame: no hand, partial lists, a full hand
NoHand == 0
LandmarkCounts == {5, 9, 13, 21}

\* finger classifications <<thumb, index, middle, ring, pinky>>
Fist == Zero
FiveUp == <<1, 1, 1, 1, 1>>
IndexOnly == <<0, 1, 0, 0, 0>>
ThumbIndex == <<1, 1, 0, 0, 0>>
IndexMiddle == <<0, 1, 1, 0, 0>>
MiddleOnly == <<0, 0, 1, 0, 0>>
ThreeUp == <<0, 1, 1, 1, 0>>
PinkyOnly == <<0, 0, 0, 0, 1>>
IndexPinky == <<0, 1, 0, 0, 1>>
Signatures == {Fist, FiveUp, IndexOnly, ThumbIndex, IndexMiddle, MiddleOnly,
               ThreeUp, PinkyOnly, IndexPinky}

\* positions of the index fingertip (landmark 8)
Points == {<<0, 0>>, <<60, 50>>, <<120, 100>>, <<250, 50>>, <<350, 50>>,
           <<550, 50>>, <<300, 300>>}

\* offsets from the thumb tip (landmark 4) to the index fingertip, of
\* lengths 0, 20, 110, 200 and 300; landmark 4 is read in volume mode only
ThumbOffsets == {<<0, 0>>, <<12, 16>>, <<66, 88>>, <<120, 160>>, <<180, 240>>}

-----------------------------------------------------------------------------
(* What a frame observed *)

\* which branch of the frame ran, for a state s reaching the if/elif chain
Branch(s, n) ==
    IF n = 0 THEN "nohand"
    ELSE IF s.selecting_mode THEN "select"
    ELSE IF s.current_mode = "mouse" /\ n > 12 THEN "mouse"
    ELSE IF s.current_mode = "volume" /\ n > 8 /\ s.volume_ok THEN "volume"
    ELSE IF s.current_mode = "painter" THEN "painter"
    ELSE IF s.current_mode = "scroll" THEN "scroll"
    ELSE "none"

NoObs == [n |-> 0, fingers |-> Zero, tip |-> <<0, 0>>, thumb |-> <<0, 0>>,
          pen |-> <<0, 0>>, was_selecting |-> FALSE, branch |-> "nohand",
          commit |-> -1]

\* History of the gestures, kept from the observations alone (never from the
\* timers of the program):
\*   fist_since   time of the first frame of the current run of consecutive
\*                hand-observed fist frames, 0 outside such a run
\*   fist_shots   Screenshots emitted in that run so far (counted up to 2)
\*   rearm_since  time of the first fist frame of that run after its last
\*                Screenshot (of its first frame before any), 0 if none yet
\*   dwell_icon   the mode icon the fingertip has been inside, without a
\*                hand-observed fingertip elsewhere, in the frames of the
\*                current ModeSelecting episode that saw the fingertip;
\*                -1 if none
\*   dwell_since  time of the first frame of that dwell
\*   five_since   time of the first frame of the current run of consecutive
\*                hand-observed frames with all five fingers up, 0 outside
\*                such a run
\*   five_fired   a frame of that run came more than MODE_SELECT_HOLD after
\*                its first frame
\*   scroll_run   the number of consecutive frames, up to the last one, that
\*                each emitted a ScrollBy (counted up to 2)
\* no function is being applied on its own
NoCall == [fn |-> "none"]

NoHist == [fist_since |-> 0, fist_shots |-> 0, rearm_since |-> 0,
           dwell_icon |-> -1, dwell_since |-> 0,
           five_since |-> 0, five_fired |-> FALSE, scroll_run |-> 0]

Shot(r) == \E k \in 1..Len(r.acts) : r.acts[k].name = "Screenshot"

TrackFist(h, n, fingers, now, r) ==
    IF n = 0 THEN h
    ELSE IF fingers # Zero
    THEN [h EXCEPT !.fist_since = 0, !.fist_shots = 0, !.rearm_since = 0]
    ELSE [h EXCEPT
            !.fist_since = IF @ = 0 THEN now ELSE @,
            !.fist_shots = IF Shot(r) /\ @ < 2 THEN @ + 1 ELSE @,
            !.rearm_since = IF Shot(r) THEN 0 ELSE IF @ = 0 THEN now ELSE @]

TrackFive(h, n, fingers, now) ==
    IF n = 0 THEN h
    ELSE IF SumFingers(fingers) # 5
    THEN [h EXCEPT !.five_since = 0, !.five_fired = FALSE]
    ELSE LET t0 == IF h.five_since = 0 THEN now ELSE h.five_since
         IN [h EXCEPT !.five_since = t0,
                      !.five_fired = @ \/ now - t0 > MODE_SELECT_HOLD]

TrackScroll(h, r) ==
    IF \E k \in 1..Len(r.acts) : r.acts[k].name = "ScrollBy"
    THEN [h EXCEPT !.scroll_run = IF @ < 2 THEN @ + 1 ELSE @]
    ELSE [h EXCEPT !.scroll_run = 0]

TrackDwell(drv, h, was_selecting, branch, n, tip, now) ==
    LET h0 == IF was_selecting THEN h
              ELSE [h EXCEPT !.dwell_icon = -1, !.dwell_since = 0]
        i == HitModeIcon(drv, tip)
    IN IF branch = "nohand" THEN h
       ELSE IF branch # "select"
       THEN [h EXCEPT !.dwell_icon = -1, !.dwell_since = 0]
       ELSE IF n <= 8 THEN h0
       ELSE IF i = -1 THEN [h0 EXCEPT !.dwell_icon = -1, !.dwell_since = 0]
       ELSE IF h0.dwell_icon = i THEN h0
       ELSE [h0 EXCEPT !.dwell_icon = i, !.dwell_since = now]

-----------------------------------------------------------------------------
(* The image handed to the display *)

\* the camera picture at the sample pixels (one fixed picture; the landmarks
\* and texts drawn on it are left out)
LiveFrame == [r \in Pixels |-> <<90, 120, 200>>]

\* the colour of an icon pixel (the placeholder icon of the source)
IconColour == <<128, 128, 128>>

\* painter_img: the frame with the painter icons pasted on it
painter_img(drv) ==
    [r \in Pixels |->
        IF \E k \in 1..Len(PainterNames) :
             LET icon == painter_icon_positions(drv)[k]
             IN /\ icon[1] <= r[1] /\ r[1] < icon[1] + ICON_SIZE(drv)
                /\ icon[2] <= r[2] /\ r[2] < icon[2] + ICON_SIZE(drv)
        THEN IconColour ELSE LiveFrame[r]]

\* The image shown by the last frame: the canvas is laid over the frame only
\* in the painter branch of the dispatch, which runs when a hand was
\* observed, ModeSelecting is false and the mode is painter.
Displayed ==
    IF obs.branch = "painter"
    THEN overlay_canvas(painter_img(driver), img_canvas)
    ELSE LiveFrame

-----------------------------------------------------------------------------
(* Initial state: module level of main.py, GestureGui._init_state *)

\* the program variables after construction
InitProgram ==
    /\ current_mode = "mouse"
    /\ selecting_mode = FALSE
    /\ click_armed = FALSE
    /\ select_mode_start = 0
    /\ screenshot_start = 0
    /\ hover_start = 0
    /\ hovered_icon = -1
    /\ xp = 0 /\ yp = 0
    /\ brush_thickness = INIT_BRUSH
    /\ draw_color = RED
    /\ draw_color_name = "red"
    /\ last_color = RED
    /\ img_canvas = BlankCanvas

\* main.py opens the camera at module level; the GUI waits for Start Camera
Init ==
    /\ driver \in {"main", "gui"}
    /\ cap_open = (driver = "main")
    /\ clock = 1
    /\ InitProgram
    /\ volume_ok \in BOOLEAN
    /\ acts = <<>>
    /\ step = "init"
    /\ obs = NoObs
    /\ hist = NoHist
    /\ call = NoCall
    /\ ret = NoCall

\* Either driver with the camera started (in the GUI: after start_capture)
\* and an audio endpoint found.
InitStarted ==
    /\ driver \in {"main", "gui"}
    /\ cap_open = TRUE
    /\ clock = 1
    /\ InitProgram
    /\ volume_ok = TRUE
    /\ acts = <<>>
    /\ step = IF driver = "gui" THEN "start_capture" ELSE "init"
    /\ obs = NoObs
    /\ hist = NoHist
    /\ call = NoCall
    /\ ret = NoCall

-----------------------------------------------------------------------------
(* Steps *)

\* One frame with n landmarks read dt seconds after the last clock reading.
FrameUntil(limit, n, sig, tip, offset, dt) ==
    LET now == clock + dt
        thumb == <<tip[1] - offset[1], tip[2] - offset[2]>>
        fingers == IF n > 0 THEN fingersSeen(n, sig) ELSE Zero
        mid == IF n > 0
               THEN ModeSelectEntry(ScreenshotTrigger(State, fingers, now),
                                    fingers, now)
               ELSE State
        r == ProcessFrame(driver, State, n, sig, tip, thumb, now)
        branch == Branch(mid, n)
    IN /\ cap_open
       /\ now <= limit
       /\ clock' = now
       /\ Becomes(r)
       /\ step' = "frame"
       /\ obs' = [n |-> n, fingers |-> fingers,
                  tip |-> IF n > 8 THEN tip ELSE <<0, 0>>,
                  thumb |-> IF n > 8 THEN thumb ELSE <<0, 0>>,
                  pen |-> <<xp, yp>>,
                  was_selecting |-> selecting_mode,
                  branch |-> branch,
                  commit |-> IF branch = "select" /\ ~r.selecting_mode
                             THEN HitModeIcon(driver, tip) ELSE -1]
       /\ hist' = TrackDwell(driver,
                             TrackFive(TrackFist(TrackScroll(hist, r),
                                                 n, fingers, now, r),
                                       n, fingers, now),
                             selecting_mode, branch, n, tip, now)
       /\ UNCHANGED <<call, ret, driver, cap_open, volume_ok>>

\* One frame in which the k-th actuator call of the frame raises an error.
\* gui_main.py wraps pyautogui.moveTo and SetMasterVolumeLevel in
\* try/except: the error is dropped and the frame goes on as usual.  No
\* other call is guarded, in either driver: the error leaves the frame where
\* the call stands - before screenshot_start is unset for the screenshot,
\* after the two hold timers and before any write of the dispatch for the
\* other calls.  In main.py it leaves the while loop and the process ends.
\* In gui_main.py it leaves the timer slot: PyQt5 either aborts the process
\* or prints the traceback and calls the slot again on the next timeout,
\* depending on its version.
FrameRaises(n, sig, tip, offset, dt) ==
    LET now == clock + dt
        thumb == <<tip[1] - offset[1], tip[2] - offset[2]>>
        fingers == IF n > 0 THEN fingersSeen(n, sig) ELSE Zero
        mid == IF n > 0
               THEN ModeSelectEntry(ScreenshotTrigger(State, fingers, now),
                                    fingers, now)
               ELSE State
        r == ProcessFrame(driver, State, n, sig, tip, thumb, now)
        branch == Branch(mid, n)
    IN /\ cap_open
       /\ now <= MaxTime
       /\ clock' = now
       /\ \E k \in 1..Len(r.acts) :
            LET a == r.acts[k]
                guarded == driver = "gui" /\ a.name \in {"PointerMove", "SetVolume"}
                at == [(IF a.name = "Screenshot" THEN State ELSE mid)
                          EXCEPT !.acts = SubSeq(r.acts, 1, k)]
                was == IF guarded THEN r ELSE at
            IN /\ Becomes(was)
               /\ hist' = TrackDwell(driver,
                             TrackFive(TrackFist(TrackScroll(hist, was),
                                                 n, fingers, now, was),
                                       n, fingers, now),
                             selecting_mode, branch, n, tip, now)
               /\ IF guarded
                  THEN step' = "raise_absorbed" /\ cap_open' = cap_open
                  ELSE \/ step' = "raise_terminated" /\ cap_open' = FALSE
                       \/ /\ driver = "gui"
                          /\ step' = "raise_abandoned" /\ cap_open' = cap_open
       /\ obs' = [n |-> n, fingers |-> fingers,
                  tip |-> IF n > 8 THEN tip ELSE <<0, 0>>,
                  thumb |-> IF n > 8 THEN thumb ELSE <<0, 0>>,
                  pen |-> <<xp, yp>>,
                  was_selecting |-> selecting_mode,
                  branch |-> branch,
                  commit |-> -1]
       /\ UNCHANGED <<call, ret, driver, volume_ok>>

\* a frame processed no later than MaxTime
Frame(n, sig, tip, offset, dt) == FrameUntil(MaxTime, n, sig, tip, offset, dt)

\* a frame with a hand, its inputs drawn from the given sets
HandFrameOf(Counts, Sigs, Tips, Offsets) ==
    \E n \in Counts, dt \in 0..MaxStep :
      \E sig \in (IF n = 21 THEN Sigs ELSE {Zero}) :
        \E tip \in (IF n > 8 THEN Tips ELSE {<<0, 0>>}) :
          \E offset \in (IF n > 8 /\ current_mode = "volume"
                          THEN Offsets ELSE {<<0, 0>>}) :
            Frame(n, sig, tip, offset, dt)

HandFrame == HandFrameOf(LandmarkCounts, Signatures, Points, ThumbOffsets)

NoHandFrame ==
    \E dt \in 0..MaxStep : Frame(NoHand, Zero, <<0, 0>>, <<0, 0>>, dt)

\* (variant: starting the camera installs a fresh canvas)
start_capture_newcanvas ==
    /\ driver = "gui"
    /\ ~cap_open
    /\ cap_open' = TRUE
    /\ img_canvas' = BlankCanvas
    /\ acts' = <<>>
    /\ step' = "start_capture"
    /\ UNCHANGED <<call, ret, driver, clock, current_mode, selecting_mode,
                   click_armed, select_mode_start, screenshot_start,
                   hover_start, hovered_icon, xp, yp, brush_thickness,
                   draw_color, draw_color_name, last_color, volume_ok,
                   obs, hist>>

\* GestureGui.start_capture
start_capture ==
    /\ driver = "gui"
    /\ ~cap_open
    /\ cap_open' = TRUE
    /\ acts' = <<>>
    /\ step' = "start_capture"
    /\ UNCHANGED <<call, ret, driver, clock, progVars, volume_ok, obs, hist>>

\* GestureGui.stop_capture
stop_capture ==
    /\ driver = "gui"
    /\ cap_open
    /\ cap_open' = FALSE
    /\ acts' = <<>>
    /\ step' = "stop_capture"
    /\ UNCHANGED <<call, ret, driver, clock, progVars, volume_ok, obs, hist>>

\* (variant: a mode button also ends the mode selection)
set_mode_endsselecting ==
    \E m \in {"mouse", "volume", "painter", "scroll"} :
        /\ driver = "gui"
        /\ current_mode' = m
        /\ selecting_mode' = FALSE
        /\ acts' = <<>>
        /\ step' = "set_mode"
        /\ UNCHANGED <<call, ret, driver, cap_open, clock, click_armed,
                       select_mode_start, screenshot_start, hover_start,
                       hovered_icon, xp, yp, brush_thickness, draw_color,
                       draw_color_name, last_color, img_canvas, volume_ok,
                       obs, hist>>

\* GestureGui.set_mode(mode, user=True): a mode button
set_mode ==
    \E m \in {"mouse", "volume", "painter", "scroll"} :
        /\ driver = "gui"
        /\ current_mode' = m
        /\ acts' = <<>>
        /\ step' = "set_mode"
        /\ UNCHANGED <<call, ret, driver, cap_open, clock, selecting_mode, click_armed,
                       select_mode_start, screenshot_start, hover_start,
                       hovered_icon, xp, yp, brush_thickness, draw_color,
                       draw_color_name, last_color, img_canvas, volume_ok,
                       obs, hist>>

\* GestureGui.on_painter_option(key): a painter button
PainterOption(s, key) ==
    IF key = "thick"
    THEN [s EXCEPT !.brush_thickness = THICK_BRUSH, !.draw_color_name = "thick"]
    ELSE IF key = "thin"
    THEN [s EXCEPT !.brush_thickness = THIN_BRUSH, !.draw_color_name = "thin"]
    ELSE IF key = "eraser"
    THEN [s EXCEPT !.draw_color = WHITE, !.draw_color_name = "eraser"]
    ELSE LET color == IF key = "red" THEN RED
                      ELSE IF key = "green" THEN GREEN ELSE BLUE
         IN [s EXCEPT !.draw_color = color, !.last_color = color,
                      !.draw_color_name = key]

on_painter_option ==
    \E key \in {"red", "green", "blue", "thick", "thin", "eraser"} :
        /\ driver = "gui"
        /\ Becomes(PainterOption(State, key))
        /\ step' = "on_painter_option"
        /\ UNCHANGED <<call, ret, driver, cap_open, clock, volume_ok, obs, hist>>

\* variant of clear_canvas: np.zeros instead of np.ones * 255
clear_canvas_zeros ==
    /\ driver = "gui"
    /\ img_canvas' = [r \in Pixels |-> <<0, 0, 0>>]
    /\ acts' = <<>>
    /\ step' = "clear_canvas"
    /\ UNCHANGED <<call, ret, driver, cap_open, clock, current_mode,
                   selecting_mode, click_armed, select_mode_start,
                   screenshot_start, hover_start, hovered_icon, xp, yp,
                   brush_thickness, draw_color, draw_color_name, last_color,
                   volume_ok, obs, hist>>

\* GestureGui.clear_canvas
clear_canvas ==
    /\ driver = "gui"
    /\ img_canvas' = BlankCanvas
    /\ acts' = <<>>
    /\ step' = "clear_canvas"
    /\ UNCHANGED <<call, ret, driver, cap_open, clock, current_mode, selecting_mode,
                   click_armed, select_mode_start, screenshot_start,
                   hover_start, hovered_icon, xp, yp, brush_thickness,
                   draw_color, draw_color_name, last_color, volume_ok,
                   obs, hist>>

\* Every step of either driver, over all the inputs above.
Next ==
    \/ HandFrame
    \/ NoHandFrame
    \/ start_capture
    \/ stop_capture
    \/ set_mode
    \/ on_painter_option
    \/ clear_canvas

Spec == Init /\ [][Next]_vars

-----------------------------------------------------------------------------
(* The screenshot hold: fist, partial hands and pointing, no hand. *)

ShotCounts == {5, 21}
ShotSignatures == {Fist, IndexOnly, PinkyOnly}
ShotPoints == {<<300, 300>>}

ShotFrame == HandFrameOf(ShotCounts, ShotSignatures, ShotPoints, {<<0, 0>>})

NextShot ==
    \/ ShotFrame
    \/ NoHandFrame

SpecShot == InitStarted /\ [][NextShot]_vars

-----------------------------------------------------------------------------
(* The mode selector: five fingers and pointing, with the fingertip on a   *)
(* mode icon or off every icon.                                            *)

SelectCounts == {5, 21}
SelectSignatures == {FiveUp, IndexOnly}
SelectPoints == {<<60, 50>>, <<250, 50>>, <<350, 50>>, <<300, 300>>}

SelectFrame ==
    HandFrameOf(SelectCounts, SelectSignatures, SelectPoints, {<<0, 0>>})

NextSelect ==
    \/ SelectFrame
    \/ NoHandFrame

SpecSelect == InitStarted /\ [][NextSelect]_vars


-----------------------------------------------------------------------------
(* Mouse mode: the click gestures, with full and partial hands; in the GUI *)
(* the mode buttons lead to the other modes and back.                      *)

MouseCounts == {9, 13, 21}
MouseSignatures == {Fist, IndexOnly, IndexMiddle, MiddleOnly, ThreeUp, PinkyOnly}
MousePoints == {<<300, 300>>}

MouseFrame ==
    HandFrameOf(MouseCounts, MouseSignatures, MousePoints, {<<0, 0>>})

NextMouse ==
    \/ MouseFrame
    \/ NoHandFrame
    \/ set_mode

SpecMouse == InitStarted /\ [][NextMouse]_vars

-----------------------------------------------------------------------------
(* Cursor movement: Mouse mode is the start mode of both drivers; the hand  *)
(* shows the index finger alone, with the thumb, with the middle finger or *)
(* with the pinky, at the corners and the middle of the camera frame.      *)

PointerCounts == {13, 21}
PointerSignatures == {Fist, IndexOnly, ThumbIndex, IndexMiddle, IndexPinky}
PointerPoints == {<<0, 0>>, <<320, 240>>, <<639, 479>>}

PointerFrame ==
    HandFrameOf(PointerCounts, PointerSignatures, PointerPoints, {<<0, 0>>})

NextPointer ==
    \/ PointerFrame
    \/ NoHandFrame

SpecPointer == InitStarted /\ [][NextPointer]_vars

-----------------------------------------------------------------------------
(* Volume mode: reached by the mode selector (the fingertip at (200, 50) is *)
(* on the volume icon of both drivers), then the thumb at the offsets      *)
(* above from the index fingertip.                                         *)

VolumeCounts == {9, 21}
VolumeSignatures == {FiveUp, IndexOnly, ThumbIndex}
VolumePoints == {<<200, 50>>}

VolumeFrame ==
    HandFrameOf(VolumeCounts, VolumeSignatures, VolumePoints, ThumbOffsets)

NextVolume ==
    \/ VolumeFrame
    \/ NoHandFrame

SpecVolume == InitStarted /\ [][NextVolume]_vars

-----------------------------------------------------------------------------
(* Painter mode: drawing and pointing at the sample points, partial hands, *)
(* no hand.  It starts where the mode selector has just committed to Painter: five      *)
(* fingers from time 1, ModeSelecting at 4 with the fingertip on the       *)
(* painter icon, the commit at 6 while pointing (PainterEntered).          *)

PainterIconPoint(drv) == IF drv = "main" THEN <<350, 50>> ELSE <<250, 50>>

PainterEntered ==
    /\ cap_open = TRUE
    /\ clock = 6
    /\ current_mode = "painter"
    /\ selecting_mode = FALSE
    /\ click_armed = TRUE
    /\ select_mode_start = 0
    /\ screenshot_start = 0
    /\ hover_start = 4
    /\ hovered_icon = IF driver = "main" THEN 2 ELSE -1
    /\ xp = 0 /\ yp = 0
    /\ brush_thickness = INIT_BRUSH
    /\ draw_color = RED
    /\ draw_color_name = "red"
    /\ last_color = RED
    /\ img_canvas = BlankCanvas
    /\ volume_ok = TRUE
    /\ acts = <<>>
    /\ step = "frame"
    /\ obs = [n |-> 21, fingers |-> IndexOnly, tip |-> PainterIconPoint(driver),
              thumb |-> PainterIconPoint(driver), pen |-> <<0, 0>>,
              was_selecting |-> TRUE,
              branch |-> "select", commit |-> 2]
    /\ hist = [fist_since |-> 0, fist_shots |-> 0, rearm_since |-> 0,
               dwell_icon |-> 2, dwell_since |-> 4,
               five_since |-> 0, five_fired |-> FALSE, scroll_run |-> 0]
    /\ call = NoCall
    /\ ret = NoCall

InitPainter == driver \in {"main", "gui"} /\ PainterEntered

PaintCounts == {5, 21}
PaintSignatures == {IndexMiddle, IndexOnly}
PaintPoints == {<<0, 0>>, <<60, 50>>, <<120, 100>>, <<250, 50>>}

PaintFrame ==
    HandFrameOf(PaintCounts, PaintSignatures, PaintPoints, {<<0, 0>>})

NextPaint ==
    \/ PaintFrame
    \/ NoHandFrame

SpecPaint == InitPainter /\ [][NextPaint]_vars

-----------------------------------------------------------------------------
(* After a commit: five fingers and pointing, on the mouse icon and away     *)
(* from the icons, no hand.  It starts where the mode selector has just      *)
(* committed to Mouse with all five fingers up throughout: five fingers from *)
(* time 1 with the fingertip on the mouse icon, ModeSelecting at 4, the      *)
(* commit at 6 (MouseCommitted).  Frames run until LateTime, long enough for *)
(* a second five-finger hold after the commit.                               *)

MouseIconPoint == <<60, 50>>

MouseCommitted ==
    /\ cap_open = TRUE
    /\ clock = 6
    /\ current_mode = "mouse"
    /\ selecting_mode = FALSE
    /\ click_armed = TRUE
    /\ select_mode_start = 1
    /\ screenshot_start = 0
    /\ hover_start = 4
    /\ hovered_icon = IF driver = "main" THEN 0 ELSE -1
    /\ xp = 0 /\ yp = 0
    /\ brush_thickness = INIT_BRUSH
    /\ draw_color = RED
    /\ draw_color_name = "red"
    /\ last_color = RED
    /\ img_canvas = BlankCanvas
    /\ volume_ok = TRUE
    /\ acts = <<>>
    /\ step = "frame"
    /\ obs = [n |-> 21, fingers |-> FiveUp, tip |-> MouseIconPoint,
              thumb |-> MouseIconPoint, pen |-> <<0, 0>>,
              was_selecting |-> TRUE, branch |-> "select", commit |-> 0]
    /\ hist = [fist_since |-> 0, fist_shots |-> 0, rearm_since |-> 0,
               dwell_icon |-> 0, dwell_since |-> 4,
               five_since |-> 1, five_fired |-> TRUE, scroll_run |-> 0]
    /\ call = NoCall
    /\ ret = NoCall

InitCommitted == driver \in {"main", "gui"} /\ MouseCommitted

LateTime == MaxTime + MaxStep

ReselectSignatures == {FiveUp, IndexOnly}
ReselectPoints == {MouseIconPoint, <<300, 300>>}

ReselectFrame ==
    \E dt \in 0..MaxStep, sig \in ReselectSignatures, tip \in ReselectPoints :
      FrameUntil(LateTime, 21, sig, tip, <<0, 0>>, dt)

LateNoHandFrame ==
    \E dt \in 0..MaxStep :
      FrameUntil(LateTime, NoHand, Zero, <<0, 0>>, <<0, 0>>, dt)

NextReselect ==
    \/ ReselectFrame
    \/ LateNoHandFrame

SpecReselect == InitCommitted /\ [][NextReselect]_vars

-----------------------------------------------------------------------------
(* Scroll mode: two and three fingers, other signatures, partial hands, no *)
(* hand.  It starts where the mode selector has just committed to Scroll:  *)
(* five fingers from time 1, ModeSelecting at 4 with the fingertip on the  *)
(* scroll icon, the commit at 6 while pointing (ScrollEntered).  Frames    *)
(* run until LateTime.                                                     *)

ScrollIconPoint(drv) == IF drv = "main" THEN <<500, 50>> ELSE <<380, 50>>

ScrollEntered ==
    /\ cap_open = TRUE
    /\ clock = 6
    /\ current_mode = "scroll"
    /\ selecting_mode = FALSE
    /\ click_armed = TRUE
    /\ select_mode_start = 0
    /\ screenshot_start = 0
    /\ hover_start = 4
    /\ hovered_icon = IF driver = "main" THEN 3 ELSE -1
    /\ xp = 0 /\ yp = 0
    /\ brush_thickness = INIT_BRUSH
    /\ draw_color = RED
    /\ draw_color_name = "red"
    /\ last_color = RED
    /\ img_canvas = BlankCanvas
    /\ volume_ok = TRUE
    /\ acts = <<>>
    /\ step = "frame"
    /\ obs = [n |-> 21, fingers |-> IndexOnly, tip |-> ScrollIconPoint(driver),
              thumb |-> ScrollIconPoint(driver), pen |-> <<0, 0>>,
              was_selecting |-> TRUE,
              branch |-> "select", commit |-> 3]
    /\ hist = [fist_since |-> 0, fist_shots |-> 0, rearm_since |-> 0,
               dwell_icon |-> 3, dwell_since |-> 4,
               five_since |-> 0, five_fired |-> FALSE, scroll_run |-> 0]
    /\ call = NoCall
    /\ ret = NoCall

InitScroll == driver \in {"main", "gui"} /\ ScrollEntered

FourUp == <<0, 1, 1, 1, 1>>
ThumbIndexMiddle == <<1, 1, 1, 0, 0>>
MiddleRing == <<0, 0, 1, 1, 0>>

ScrollCounts == {5, 21}
ScrollSignatures == {Fist, IndexOnly, IndexMiddle, ThumbIndexMiddle, ThreeUp,
                     FourUp, MiddleRing}
ScrollPoints == {<<300, 300>>}

ScrollFrame ==
    \E n \in ScrollCounts, dt \in 0..MaxStep :
      \E sig \in (IF n = 21 THEN ScrollSignatures ELSE {Zero}) :
        \E tip \in (IF n > 8 THEN ScrollPoints ELSE {<<0, 0>>}) :
          FrameUntil(LateTime, n, sig, tip, <<0, 0>>, dt)

NextScroll ==
    \/ ScrollFrame
    \/ LateNoHandFrame

SpecScroll == InitScroll /\ [][NextScroll]_vars

-----------------------------------------------------------------------------
(* All four modes: the mode selector with the fingertip on the volume icon  *)
(* or on the scroll icon, the click gestures, no hand, and in the GUI the   *)
(* mode buttons (the only way to Painter here).                             *)

VolumeIconPoint == <<200, 50>>

ModeSignatures == {FiveUp, IndexOnly, MiddleOnly}
ModePoints(drv) == {VolumeIconPoint, ScrollIconPoint(drv)}

ModeFrame == HandFrameOf({21}, ModeSignatures, ModePoints(driver), {<<0, 0>>})

NextModes ==
    \/ ModeFrame
    \/ NoHandFrame
    \/ set_mode

SpecModes == InitStarted /\ [][NextModes]_vars

-----------------------------------------------------------------------------
(* The canvas over every kind of step: drawing between two points, pointing *)
(* at the blue tool icon, five fingers until ModeSelecting, no hand, and in *)
(* the GUI the mode buttons, Stop and Start Camera and Clear Canvas; from   *)
(* PainterEntered, until LateTime.                                          *)

CanvasSignatures == {IndexMiddle, IndexOnly, FiveUp}
BlueIconPoint == <<250, 50>>
CanvasPoints(sig) ==
    IF sig = IndexMiddle THEN {<<60, 50>>, BlueIconPoint} ELSE {BlueIconPoint}

CanvasFrame ==
    \E dt \in 0..MaxStep, sig \in CanvasSignatures :
      \E tip \in CanvasPoints(sig) :
        FrameUntil(LateTime, 21, sig, tip, <<0, 0>>, dt)

NextCanvas ==
    \/ CanvasFrame
    \/ LateNoHandFrame
    \/ set_mode
    \/ stop_capture
    \/ start_capture
    \/ clear_canvas

SpecCanvas == InitPainter /\ [][NextCanvas]_vars

-----------------------------------------------------------------------------
(* The two drivers side by side: the gesture logic of main.py and of        *)
(* gui_main.py, each on its own program state, fed the same frames.  ret    *)
(* holds the two states after the last frame and call the inputs of that    *)
(* frame; the variables of the single-driver steps keep their first values. *)
(* The fingertip is at points where the two icon layouts agree on the mode  *)
(* icon and on the tool icon it is inside: the mouse icon and the red icon, *)
(* the volume icon and the green icon, no icon.                             *)

\* the program variables after construction, as a state record
InitRecord ==
    [current_mode |-> "mouse", selecting_mode |-> FALSE,
     click_armed |-> FALSE, select_mode_start |-> 0,
     screenshot_start |-> 0, hover_start |-> 0,
     hovered_icon |-> -1, xp |-> 0, yp |-> 0,
     brush_thickness |-> INIT_BRUSH, draw_color |-> RED,
     draw_color_name |-> "red", last_color |-> RED,
     img_canvas |-> BlankCanvas, volume_ok |-> TRUE, acts |-> <<>>]

BothCounts == {13, 21}
BothSignatures == {Fist, FiveUp, IndexOnly, IndexMiddle}
BothPoints == {<<60, 50>>, <<185, 50>>, <<300, 300>>}

InitBoth ==
    /\ driver = "main"
    /\ cap_open = TRUE
    /\ clock = 1
    /\ InitProgram
    /\ volume_ok = TRUE
    /\ acts = <<>>
    /\ step = "init"
    /\ obs = NoObs
    /\ hist = NoHist
    /\ call = NoCall
    /\ ret = [fn |-> "ProcessFrame", main |-> InitRecord, gui |-> InitRecord,
              episodes |-> 0]

\* one frame, processed by both drivers; episodes counts the frames that
\* turned ModeSelecting on in either driver (up to 2)
ProcessFrame_both ==
    \E n \in BothCounts, dt \in 0..MaxStep :
      \E sig \in (IF n = 21 THEN BothSignatures ELSE {Zero}), tip \in BothPoints :
        LET now == clock + dt
            m == ProcessFrame("main", [ret.main EXCEPT !.acts = <<>>],
                              n, sig, tip, tip, now)
            g == ProcessFrame("gui", [ret.gui EXCEPT !.acts = <<>>],
                              n, sig, tip, tip, now)
            entered == \/ ~ret.main.selecting_mode /\ m.selecting_mode
                       \/ ~ret.gui.selecting_mode /\ g.selecting_mode
        IN /\ ret.fn = "ProcessFrame"
           /\ now <= MaxTime
           /\ clock' = now
           /\ call' = [fn |-> "ProcessFrame", n |-> n,
                       fingers |-> fingersSeen(n, sig), tip |-> tip]
           /\ ret' = [fn |-> "ProcessFrame", main |-> m, gui |-> g,
                      episodes |-> IF entered /\ ret.episodes < 2
                                   THEN ret.episodes + 1 ELSE ret.episodes]
           /\ step' = "ProcessFrame"
           /\ UNCHANGED <<driver, cap_open, progVars, volume_ok, acts, obs,
                          hist>>

\* a frame without a hand, processed by both drivers
ProcessFrame_both_nohand ==
    \E dt \in 0..MaxStep :
        LET now == clock + dt
            m == ProcessFrame("main", [ret.main EXCEPT !.acts = <<>>],
                              NoHand, Zero, <<0, 0>>, <<0, 0>>, now)
            g == ProcessFrame("gui", [ret.gui EXCEPT !.acts = <<>>],
                              NoHand, Zero, <<0, 0>>, <<0, 0>>, now)
        IN /\ ret.fn = "ProcessFrame"
           /\ now <= MaxTime
           /\ clock' = now
           /\ call' = [fn |-> "ProcessFrame", n |-> NoHand,
                       fingers |-> Zero, tip |-> <<0, 0>>]
           /\ ret' = [ret EXCEPT !.main = m, !.gui = g]
           /\ step' = "ProcessFrame"
           /\ UNCHANGED <<driver, cap_open, progVars, volume_ok, acts, obs,
                          hist>>

NextBoth ==
    \/ ProcessFrame_both
    \/ ProcessFrame_both_nohand

SpecBoth == InitBoth /\ [][NextBoth]_vars

-----------------------------------------------------------------------------
(* Staying in the mode selection: five fingers, pointing and a fist, with   *)
(* the fingertip on the volume icon or off every icon, no hand, and in the  *)
(* GUI the mode buttons.                                                    *)

StaySignatures == {FiveUp, IndexOnly, Fist}
StayPoints == {VolumeIconPoint, <<300, 300>>}

StayFrame == HandFrameOf({21}, StaySignatures, StayPoints, {<<0, 0>>})

NextStay ==
    \/ StayFrame
    \/ NoHandFrame
    \/ set_mode

SpecStay == InitStarted /\ [][NextStay]_vars

-----------------------------------------------------------------------------
(* Painter tools: pointing at each of the six tool icons, and in the GUI   *)
(* the painter buttons; from PainterEntered.                                *)

ToolPoints ==
    {<<60, 50>>, <<150, 50>>, <<250, 50>>, <<350, 50>>, <<450, 50>>, <<550, 50>>}

ToolFrame == HandFrameOf({21}, {IndexOnly}, ToolPoints, {<<0, 0>>})

NextTools ==
    \/ ToolFrame
    \/ on_painter_option

SpecTools == InitPainter /\ [][NextTools]_vars

-----------------------------------------------------------------------------
(* Actuator errors: the frames of SpecMouse, each actuator call of which   *)
(* may raise.                                                               *)

MouseFrameRaises ==
    \E n \in MouseCounts, dt \in 0..MaxStep :
      \E sig \in (IF n = 21 THEN MouseSignatures ELSE {Zero}) :
        \E tip \in MousePoints :
          FrameRaises(n, sig, tip, <<0, 0>>, dt)

NextRaise ==
    \/ NextMouse
    \/ MouseFrameRaises

SpecRaise == InitStarted /\ [][NextRaise]_vars

-----------------------------------------------------------------------------
(* overlay_canvas applied on its own to a frame and a canvas of two pixels, *)
(* with canvas colours on both sides of the mask threshold.                 *)

OverlayPixels == {<<0, 0>>, <<60, 50>>}
OverlayCanvasColours ==
    {WHITE, RED, GREEN, BLUE, <<0, 0, 0>>, <<250, 250, 250>>, <<251, 251, 251>>,
     <<255, 255, 200>>}
OverlayFrameColours == {<<90, 120, 200>>, <<255, 255, 255>>, <<0, 0, 0>>}

InitOverlay ==
    /\ driver \in {"main", "gui"}
    /\ cap_open = TRUE
    /\ clock = 1
    /\ InitProgram
    /\ volume_ok = TRUE
    /\ acts = <<>>
    /\ step = "init"
    /\ obs = NoObs
    /\ hist = NoHist
    /\ call \in [fn : {"overlay_canvas"},
                  frame : [OverlayPixels -> OverlayFrameColours],
                  canvas : [OverlayPixels -> OverlayCanvasColours]]
    /\ ret = NoCall

overlay_canvas_call ==
    /\ call.fn = "overlay_canvas"
    /\ ret.fn = "none"
    /\ ret' = [fn |-> "overlay_canvas",
               value |-> overlay_canvas(call.frame, call.canvas)]
    /\ step' = "overlay_canvas"
    /\ UNCHANGED <<call, driver, cap_open, clock, progVars, volume_ok, acts,
                   obs, hist>>

SpecOverlay == InitOverlay /\ [][overlay_canvas_call]_vars

-----------------------------------------------------------------------------
(* Drawing and clearing: the drawing and pointing frames of SpecPaint with *)
(* a full hand, and the Clear Canvas button of the GUI.                     *)

ClearFrame == HandFrameOf({21}, PaintSignatures, PaintPoints, {<<0, 0>>})

NextClear ==
    \/ ClearFrame
    \/ clear_canvas

SpecClear == InitPainter /\ [][NextClear]_vars

-----------------------------------------------------------------------------
(* fingersUp applied on its own to landmark lists of 0 to 21 entries.  The  *)
(* x of landmarks 3 and 4 and the y of each fingertip and of the landmark   *)
(* two below it range over LandmarkCoords; every other coordinate is the    *)
(* smallest of them.                                                        *)

LandmarkCoords == {100, 200}
ListLengths == {0, 5, 20, 21}

\* the hand with thumb x's tx = <<x3, x4>> and, for finger i of the four
\* others, y's fy[i] = <<y two below the tip, y of the tip>>
HandWith(tx, fy) ==
    [k \in 1..21 |->
        LET id == k - 1
        IN <<id,
             IF id = 3 THEN tx[1] ELSE IF id = 4 THEN tx[2] ELSE 100,
             IF \E i \in 1..4 : id = tipIds[i + 1] - 2
             THEN fy[(id - 2) \div 4][1]
             ELSE IF \E i \in 1..4 : id = tipIds[i + 1]
             THEN fy[(id - 4) \div 4][2]
             ELSE 100>>]

LandmarkLists ==
    {SubSeq(HandWith(tx, fy), 1, n) :
        tx \in LandmarkCoords \X LandmarkCoords,
        fy \in [1..4 -> LandmarkCoords \X LandmarkCoords],
        n \in ListLengths}

InitFingers ==
    /\ driver \in {"main", "gui"}
    /\ cap_open = TRUE
    /\ clock = 1
    /\ InitProgram
    /\ volume_ok = TRUE
    /\ acts = <<>>
    /\ step = "init"
    /\ obs = NoObs
    /\ hist = NoHist
    /\ call \in [fn : {"fingersUp"}, lmList : LandmarkLists]
    /\ ret = NoCall

fingersUp_call ==
    /\ call.fn = "fingersUp"
    /\ ret.fn = "none"
    /\ ret' = [fn |-> "fingersUp", value |-> fingersUp(call.lmList)]
    /\ step' = "fingersUp"
    /\ UNCHANGED <<call, driver, cap_open, clock, progVars, volume_ok, acts,
                   obs, hist>>

SpecFingers == InitFingers /\ [][fingersUp_call]_vars

-----------------------------------------------------------------------------
(* Properties *)

ShotNow == \E k \in 1..Len(acts) : acts[k].name = "Screenshot"

FistFrame == step = "frame" /\ obs.n > 0 /\ obs.fingers = Zero

\* C1: in a run of consecutive hand-observed fist frames that began at
\* fist_since with the timer unset, as long as no Screenshot was emitted in
\* an earlier frame of the run, a frame emits a Screenshot exactly when its
\* time is at least SCREENSHOT_HOLD after fist_since: the first frame at or
\* past the threshold fires and no earlier frame does.
C1_ScreenshotAtHold ==
    (FistFrame /\ hist.fist_shots = (IF ShotNow THEN 1 ELSE 0))
        => (ShotNow <=> clock - hist.fist_since >= SCREENSHOT_HOLD)

\* a Screenshot fired in the frame exactly SCREENSHOT_HOLD after the run began
C1_Witness ==
    /\ FistFrame /\ ShotNow /\ hist.fist_shots = 1
    /\ clock - hist.fist_since = SCREENSHOT_HOLD

C3_HoverCommit ==
    [][(/\ selecting_mode /\ step' = "frame"
        /\ obs'.n > 8 /\ HitModeIcon(driver, obs'.tip) # -1)
          => IF clock' - hist'.dwell_since > HOVER_HOLD
             THEN /\ current_mode' = ModeNames[HitModeIcon(driver, obs'.tip) + 1]
                  /\ ~selecting_mode'
             ELSE /\ current_mode' = current_mode
                  /\ selecting_mode']_vars

\* a commit to another mode in a frame that started in ModeSelecting, on the
\* first clock reading past HOVER_HOLD
C3_Witness ==
    /\ step = "frame" /\ obs.was_selecting /\ obs.commit = 2
    /\ current_mode = "painter" /\ ~selecting_mode
    /\ clock - hist.dwell_since = HOVER_HOLD + 1

\* C4 as stated: every hover commit to icon i comes after the fingertip has
\* been inside i, in the hand-observed frames of the current ModeSelecting
\* episode, for more than HOVER_HOLD.
C4_CommitNeedsDwell ==
    obs.commit # -1
        => /\ hist.dwell_icon = obs.commit
           /\ clock - hist.dwell_since > HOVER_HOLD

\* C10 as stated: after a frame with no hand the screenshot, mode-select and
\* hover timers are all unset.
C10_NoHandUnsetsTimers ==
    (step = "frame" /\ obs.n = 0)
        => /\ screenshot_start = 0
           /\ select_mode_start = 0
           /\ hovered_icon = -1


CountActs(as, name) == Cardinality({k \in 1..Len(as) : as[k].name = name})

\* C5: in a Mouse-mode dispatch frame: index and middle both up arm the click
\* and emit no click; armed with index down and middle up emits exactly one
\* LeftClick and disarms; armed with both down emits exactly one RightClick
\* and disarms; unarmed without both up emits no click.
C5_ClickArming ==
    [][(step' = "frame" /\ obs'.branch = "mouse")
          => LET idx == Up(obs'.fingers, 1)
                 mid == Up(obs'.fingers, 2)
                 left == CountActs(acts', "LeftClick")
                 right == CountActs(acts', "RightClick")
             IN /\ (idx /\ mid) => (click_armed' /\ left = 0 /\ right = 0)
                /\ (click_armed /\ ~idx /\ mid)
                       => (left = 1 /\ right = 0 /\ ~click_armed')
                /\ (click_armed /\ ~idx /\ ~mid)
                       => (left = 0 /\ right = 1 /\ ~click_armed')
                /\ (~click_armed /\ ~(idx /\ mid))
                       => (left = 0 /\ right = 0 /\ ~click_armed')]_vars

\* a LeftClick emitted by the middle-only frame after the arming frame
C5_Witness ==
    /\ step = "frame" /\ obs.branch = "mouse" /\ obs.fingers = MiddleOnly
    /\ acts = <<Act("LeftClick", 0, 0)>> /\ ~click_armed

\* the thumb-index distance a volume frame measured
VolumeLength == findDistance(obs.n, 4, 8, obs.thumb, obs.tip)

\* the levels SetVolume was called with in the last step (numerators over
\* VOL_LEN_HI - VOL_LEN_LO)
VolumeLevels == {acts[k].x : k \in {j \in 1..Len(acts) : acts[j].name = "SetVolume"}}

\* C6: every frame dispatched in Volume mode emits one SetVolume(v) with
\* v = vol_min for a distance <= 20, v = vol_max for a distance >= 200, the
\* point on the line between (20, vol_min) and (200, vol_max) in between,
\* and always vol_min <= v <= vol_max; from one volume frame to the next, a
\* distance that is not smaller gives a level that is not smaller.
C6_VolumeMapping ==
    [][(step' = "frame" /\ obs'.branch = "volume")
          => /\ CountActs(acts', "SetVolume") = 1
             /\ \A v \in VolumeLevels' :
                  LET d == VolumeLength'
                      span == VOL_LEN_HI - VOL_LEN_LO
                  IN /\ d <= VOL_LEN_LO => v = VOL_MIN * span
                     /\ d >= VOL_LEN_HI => v = VOL_MAX * span
                     /\ (VOL_LEN_LO < d /\ d < VOL_LEN_HI)
                           => v = VOL_MIN * (VOL_LEN_HI - d) + VOL_MAX * (d - VOL_LEN_LO)
                     /\ VOL_MIN * span <= v /\ v <= VOL_MAX * span
                     /\ (/\ step = "frame" /\ obs.branch = "volume"
                         /\ VolumeLength <= d)
                           => \A u \in VolumeLevels : u <= v]_vars

\* a distance of 300 mapped to vol_max
C6_Witness ==
    /\ step = "frame" /\ obs.branch = "volume" /\ VolumeLength = 300
    /\ VolumeLevels = {VOL_MAX * (VOL_LEN_HI - VOL_LEN_LO)}

\* a frame dispatched in Painter mode that saw the fingertip with index and
\* middle finger up
DrawFrame(o) ==
    o.branch = "painter" /\ o.n > 8 /\ Up(o.fingers, 1) /\ Up(o.fingers, 2)

\* the pixels within t/2 of point p
OnDot(r, p, t) == 4 * Dist2(r, p) <= t * t

\* C7 as stated: with the pen lifted, the first drawing frame at p leaves
\* every canvas pixel unchanged and only sets the pen to p.
C7_FirstDrawLeavesCanvas ==
    [][(step' = "frame" /\ DrawFrame(obs') /\ xp = 0 /\ yp = 0)
          => /\ img_canvas' = img_canvas
             /\ xp' = obs'.tip[1] /\ yp' = obs'.tip[2]]_vars

\* C7: with the pen lifted, the first drawing frame at p paints the pixels
\* within half the brush thickness of p in the current colour (the segment
\* from p to p), leaves every other canvas pixel unchanged, and sets the pen
\* to p.
C7_FirstDrawPaintsDot ==
    [][(step' = "frame" /\ DrawFrame(obs') /\ xp = 0 /\ yp = 0)
          => /\ \A r \in Pixels :
                  img_canvas'[r] = IF OnDot(r, obs'.tip, brush_thickness)
                                   THEN draw_color ELSE img_canvas[r]
             /\ xp' = obs'.tip[1] /\ yp' = obs'.tip[2]]_vars

\* the first drawing frame of a stroke at (60, 50) on the blank canvas
C7_Witness ==
    /\ step = "frame" /\ DrawFrame(obs) /\ obs.pen = <<0, 0>>
    /\ obs.tip = <<60, 50>> /\ xp = 60 /\ yp = 50
    /\ img_canvas = [BlankCanvas EXCEPT ![<<60, 50>>] = RED]

\* C8 as stated: of two consecutive Painter drawing frames at p then q, the
\* second paints the segment from p to q in the current colour and thickness
\* and sets the pen to q, for every p, (0, 0) included.
C8_SegmentDrawn ==
    [][(/\ step = "frame" /\ DrawFrame(obs)
        /\ step' = "frame" /\ DrawFrame(obs'))
          => /\ \A r \in Pixels :
                  img_canvas'[r] = IF OnStroke(r, obs.tip, obs'.tip,
                                              brush_thickness)
                                   THEN draw_color ELSE img_canvas[r]
             /\ xp' = obs'.tip[1] /\ yp' = obs'.tip[2]]_vars

\* C8 where the first of the two frames is not at (0, 0)
C8_SegmentFromLoweredPen ==
    [][(/\ step = "frame" /\ DrawFrame(obs) /\ obs.tip # <<0, 0>>
        /\ step' = "frame" /\ DrawFrame(obs'))
          => /\ \A r \in Pixels :
                  img_canvas'[r] = IF OnStroke(r, obs.tip, obs'.tip,
                                              brush_thickness)
                                   THEN draw_color ELSE img_canvas[r]
             /\ xp' = obs'.tip[1] /\ yp' = obs'.tip[2]]_vars

\* C9 as stated: the pen is lifted after every frame that is not a Painter
\* drawing frame.
C9_PenLifted ==
    (step = "frame" /\ ~DrawFrame(obs)) => (xp = 0 /\ yp = 0)

\* C9, the consequence: a drawing frame that follows a frame without the
\* drawing gesture paints nothing but the dot at its own point.
C9_NoJoinAcrossGap ==
    [][(/\ step = "frame" /\ ~DrawFrame(obs)
        /\ step' = "frame" /\ DrawFrame(obs'))
          => \A r \in Pixels :
               img_canvas'[r] = IF OnDot(r, obs'.tip, brush_thickness)
                                THEN draw_color ELSE img_canvas[r]]_vars

\* C11: a frame in which no hand is observed emits no action and leaves
\* Mode, ModeSelecting, ClickArmState, the painter tool, the canvas and the
\* pen unchanged.
C11_NoHandNoEffect ==
    [][(step' = "frame" /\ obs'.n = NoHand)
          => /\ acts' = <<>>
             /\ UNCHANGED <<current_mode, selecting_mode, click_armed,
                            brush_thickness, draw_color, draw_color_name,
                            last_color, img_canvas, xp, yp>>]_vars

\* a frame without a hand while the pen is down on a painted canvas
C11_Witness ==
    /\ step = "frame" /\ obs.n = NoHand /\ obs.pen = <<60, 50>>
    /\ xp = 60 /\ yp = 50 /\ img_canvas[<<60, 50>>] = RED

\* a hand-observed frame with all five fingers up
FiveFrame(o) == o.n > 0 /\ SumFingers(o.fingers) = 5

\* C12 as stated: in a run of consecutive hand-observed five-finger frames
\* that began at t0, ModeSelecting is true after the first frame with
\* t - t0 > MODE_SELECT_HOLD if it was false before it, and a frame with
\* t - t0 <= MODE_SELECT_HOLD does not make it true.
C12_SelectingAfterHold ==
    [][(step' = "frame" /\ FiveFrame(obs') /\ ~selecting_mode)
          => IF clock' - hist'.five_since > MODE_SELECT_HOLD
             THEN ~hist.five_fired => selecting_mode'
             ELSE ~selecting_mode']_vars

\* C12, the hold rule alone: the first frame of the run with
\* t - t0 > MODE_SELECT_HOLD is dispatched as a ModeSelecting frame, and no
\* earlier frame of the run enters ModeSelecting.
C12_SelectDispatchAfterHold ==
    [][(step' = "frame" /\ FiveFrame(obs') /\ ~selecting_mode)
          => IF clock' - hist'.five_since > MODE_SELECT_HOLD
             THEN ~hist.five_fired => obs'.branch = "select"
             ELSE ~selecting_mode' /\ obs'.branch # "select"]_vars

\* C12 as stated, for the frames that start with no hovered icon left over
C12_SelectingAfterHoldNoHover ==
    [][(/\ step' = "frame" /\ FiveFrame(obs') /\ ~selecting_mode
        /\ hovered_icon = -1)
          => IF clock' - hist'.five_since > MODE_SELECT_HOLD
             THEN ~hist.five_fired => selecting_mode'
             ELSE ~selecting_mode']_vars

\* ModeSelecting entered by the second five-finger hold after a commit
C12_Witness ==
    /\ step = "frame" /\ FiveFrame(obs) /\ ~obs.was_selecting
    /\ obs.branch = "select" /\ selecting_mode
    /\ hist.five_since = 6 /\ clock = 9

\* C13 as stated: ModeSelecting is entered only by the first frame of a
\* five-finger run that comes more than MODE_SELECT_HOLD after the start of
\* the run; once the hold has fired, the same run does not enter it again.
C13_NoReentryWhileHeld ==
    [][(step' = "frame" /\ ~selecting_mode /\ selecting_mode')
          => ~hist.five_fired]_vars

\* C14 as stated: the stroke colour is white exactly when the most recently
\* selected option (draw_color_name) is the eraser, otherwise it is the most
\* recently selected colour (last_color), which is never white.
C14_ColourFollowsSelection ==
    /\ draw_color = WHITE <=> draw_color_name = "eraser"
    /\ draw_color_name # "eraser" => draw_color = last_color
    /\ last_color \in {RED, GREEN, BLUE}

\* C14 for selections by gesture: after a Painter frame that pointed at a
\* tool icon, the colour follows the selection.
C14_GestureSelection ==
    (/\ step = "frame" /\ obs.branch = "painter"
     /\ HitPainterIcons(driver, obs.tip) # {})
        => C14_ColourFollowsSelection

\* the last step was a frame one of whose actuator calls raised
Raised == step \in {"raise_absorbed", "raise_terminated", "raise_abandoned"}

\* the actuator call that raised
RaisedCall == acts[Len(acts)].name

\* C15 as stated: an actuator error is absorbed at the call site, whatever
\* the actuator and the driver, and the frame loop goes on.
C15_ErrorsAbsorbed == Raised => (step = "raise_absorbed" /\ cap_open)

\* C15 for the two guarded calls of gui_main.py
C15_GuardedCallsAbsorbed ==
    (Raised /\ driver = "gui" /\ RaisedCall \in {"PointerMove", "SetVolume"})
        => (step = "raise_absorbed" /\ cap_open)

\* C18: the composite of a frame F and a canvas equals, at each pixel, the
\* canvas pixel where the canvas grey level is <= 250 and the frame pixel
\* where it is > 250; with a pure-white canvas it is F.
C18_Composite ==
    ret.fn = "overlay_canvas"
        => /\ \A r \in OverlayPixels :
                ret.value[r] = IF Gray(call.canvas[r]) <= MASK_THRESHOLD
                               THEN call.canvas[r] ELSE call.frame[r]
           /\ (\A r \in OverlayPixels : call.canvas[r] = WHITE)
                 => ret.value = call.frame

\* a red stroke pixel over a frame pixel, beside a white canvas pixel
C18_Witness ==
    /\ ret.fn = "overlay_canvas"
    /\ call.canvas[<<0, 0>>] = RED /\ call.canvas[<<60, 50>>] = WHITE
    /\ call.frame[<<0, 0>>] = <<90, 120, 200>>
    /\ call.frame[<<60, 50>>] = <<90, 120, 200>>
    /\ ret.value[<<0, 0>>] = RED /\ ret.value[<<60, 50>>] = <<90, 120, 200>>

\* the canvas pixels that carry a stroke the compositor shows
StrokePixels == {r \in Pixels : Gray(img_canvas[r]) <= MASK_THRESHOLD}

\* C16 as stated: in every frame processed while the mode is painter, the
\* displayed image shows the canvas strokes over the frame.
C16_CanvasAlwaysShown ==
    [][(step' = "frame" /\ current_mode = "painter" /\ current_mode' = "painter")
          => \A r \in StrokePixels' : Displayed'[r] = img_canvas'[r]]_vars

\* C16 for the frames dispatched in the painter branch
C16_CanvasShownInPainterBranch ==
    [][(step' = "frame" /\ obs'.branch = "painter")
          => \A r \in Pixels :
               Displayed'[r] = IF r \in StrokePixels' THEN img_canvas'[r]
                               ELSE painter_img(driver)[r]]_vars

\* C17: clear_canvas leaves every canvas pixel pure white whatever was drawn
\* before, changes nothing else of the program state, and a second
\* clear_canvas right after it changes nothing at all.
C17_ClearCanvas ==
    [][step' = "clear_canvas"
          => /\ \A r \in Pixels : img_canvas'[r] = <<255, 255, 255>>
             /\ UNCHANGED <<current_mode, selecting_mode, click_armed,
                            select_mode_start, screenshot_start, hover_start,
                            hovered_icon, xp, yp, brush_thickness, draw_color,
                            draw_color_name, last_color>>
             /\ step = "clear_canvas" => img_canvas' = img_canvas]_vars

\* the canvas cleared right after a red stroke through (60, 50)
C17_Witness ==
    /\ step = "clear_canvas" /\ DrawFrame(obs) /\ obs.tip = <<60, 50>>
    /\ draw_color = RED /\ img_canvas = BlankCanvas

\* C19: fingersUp returns exactly 5 values in {0, 1}; all zeros for a list
\* of fewer than 21 landmarks; for 21 landmarks the thumb is up exactly when
\* landmark 4's x is greater than landmark 3's x, and each other finger
\* exactly when its tip (8, 12, 16, 20) has a smaller y than the landmark
\* two below it (6, 10, 14, 18).
C19_FingersUp ==
    ret.fn = "fingersUp"
        => LET lm == call.lmList
               f == ret.value
           IN /\ DOMAIN f = 1..5
              /\ \A i \in 1..5 : f[i] \in {0, 1}
              /\ Len(lm) < 21 => \A i \in 1..5 : f[i] = 0
              /\ Len(lm) = 21 =>
                   /\ f[1] = 1 <=> lm[5][2] > lm[4][2]
                   /\ f[2] = 1 <=> lm[9][3] < lm[7][3]
                   /\ f[3] = 1 <=> lm[13][3] < lm[11][3]
                   /\ f[4] = 1 <=> lm[17][3] < lm[15][3]
                   /\ f[5] = 1 <=> lm[21][3] < lm[19][3]

\* a full hand with the thumb to the right and only the index finger raised
C19_Witness ==
    /\ ret.fn = "fingersUp" /\ Len(call.lmList) = 21
    /\ call.lmList[5][2] > call.lmList[4][2]
    /\ call.lmList[9][3] < call.lmList[7][3]
    /\ ret.value = <<1, 1, 0, 0, 0>>

\* a list of 20 landmarks whose coordinates show a raised index finger
C19_WitnessShort ==
    /\ ret.fn = "fingersUp" /\ Len(call.lmList) = 20
    /\ call.lmList[9][3] < call.lmList[7][3]
    /\ ret.value = <<0, 0, 0, 0, 0>>

\* the PointerMove calls of the last step
PointerMoves == {k \in 1..Len(acts) : acts[k].name = "PointerMove"}

\* the fingertip mapped linearly from the camera frame to the display, as a
\* PointerMove call (arguments are numerators over CAM_WIDTH and CAM_HEIGHT)
LinearTarget(tip) ==
    Act("PointerMove", tip[1] * SCREEN_WIDTH, tip[2] * SCREEN_HEIGHT)

ScrollCalls == SelectSeq(acts, LAMBDA a : a.name = "ScrollBy")

\* C21: in a Scroll-mode dispatch frame exactly one ScrollBy(+SCROLL_AMOUNT)
\* is emitted when index and middle are up and ring is down, exactly one
\* ScrollBy(-SCROLL_AMOUNT) when index, middle and ring are all up, and no
\* scroll otherwise; this holds of every such frame, whatever the frames
\* before it did (no edge detection, no debounce).
C21_ScrollPerFrame ==
    (step = "frame" /\ obs.branch = "scroll")
        => LET idx == Up(obs.fingers, 1)
               mid == Up(obs.fingers, 2)
               ring == Up(obs.fingers, 3)
           IN ScrollCalls
                = (IF idx /\ mid /\ ~ring
                   THEN <<Act("ScrollBy", SCROLL_AMOUNT, 0)>>
                   ELSE IF idx /\ mid /\ ring
                   THEN <<Act("ScrollBy", -SCROLL_AMOUNT, 0)>>
                   ELSE <<>>)

\* the second of two consecutive frames that scrolled
C21_Witness ==
    /\ step = "frame" /\ obs.branch = "scroll" /\ hist.scroll_run = 2
    /\ obs.fingers = ThreeUp
    /\ acts = <<Act("ScrollBy", -SCROLL_AMOUNT, 0)>>

\* the click calls of the step that led to the primed state
ClicksNext == CountActs(acts', "LeftClick") + CountActs(acts', "RightClick")

\* C22: ClickArmState changes only in a Mouse-mode dispatch frame: it becomes
\* armed only on index and middle up and becomes unarmed only when a click
\* is emitted; every other step (a Mouse frame with any other signature, a
\* ModeSelecting frame, a frame dispatched in another mode, a no-hand
\* frame, a hover commit, a GUI mode button) leaves it unchanged.
C22_ArmChangesInMouseFrameOnly ==
    [][(click_armed' # click_armed)
          => /\ step' = "frame" /\ obs'.branch = "mouse"
             /\ click_armed' => (Up(obs'.fingers, 1) /\ Up(obs'.fingers, 2))
             /\ ~click_armed' => ClicksNext = 1]_vars

\* a hover commit to Volume that left the click armed
C22_Witness ==
    /\ step = "frame" /\ obs.branch = "select" /\ obs.commit = 1
    /\ current_mode = "volume" /\ click_armed

\* a mode button pressed while the click was armed
C22_WitnessButton == step = "set_mode" /\ current_mode = "scroll" /\ click_armed

\* C23: in every frame in which ModeSelecting is true after the mode-select
\* entry check, the dispatch of the current Mode is skipped: no PointerMove,
\* LeftClick, RightClick, SetVolume or ScrollBy is emitted (a Screenshot is
\* the only call there can be) and ClickArmState, PainterTool, Canvas and
\* PenCursor are unchanged.
C23_SelectingSkipsDispatch ==
    [][(step' = "frame" /\ obs'.branch = "select")
          => /\ \A k \in 1..Len(acts') : acts'[k].name = "Screenshot"
             /\ UNCHANGED <<click_armed, brush_thickness, draw_color,
                            draw_color_name, last_color, img_canvas,
                            xp, yp>>]_vars

\* a ModeSelecting frame in Scroll mode with three scrolling fingers up and
\* no commit: nothing is emitted
C23_Witness ==
    /\ step = "frame" /\ obs.branch = "select" /\ obs.commit = -1
    /\ current_mode = "scroll" /\ obs.fingers = FiveUp
    /\ acts = <<>>

\* a ModeSelecting frame that took a Screenshot
C23_WitnessShot ==
    /\ step = "frame" /\ obs.branch = "select"
    /\ acts = <<Act("Screenshot", 0, 0)>>

\* a frame whose hand observation has at least one but fewer than 21
\* landmarks leads to the primed state
PartialFrameNext == step' = "frame" /\ obs'.n > 0 /\ obs'.n < 21

\* C24 (as stated): a frame whose hand observation has at least one but
\* fewer than 21 landmarks emits no action at all, starts no hold timer and
\* completes no hold or dwell, and leaves ClickArmState and Canvas
\* unchanged.
C24_PartialHandNoEffect ==
    [][PartialFrameNext
          => /\ acts' = <<>>
             /\ screenshot_start' \in {0, screenshot_start}
             /\ select_mode_start' \in {0, select_mode_start}
             /\ selecting_mode' = selecting_mode
             /\ current_mode' = current_mode
             /\ UNCHANGED <<click_armed, img_canvas>>]_vars

\* C24 (what the code keeps of it): such a frame is classified as a fist; it
\* never emits a PointerMove, a LeftClick or a ScrollBy, never starts or
\* completes the five-finger hold (a dwell it can complete, with more than
\* 8 landmarks), and leaves the Canvas unchanged.
C24_PartialHandIsFist ==
    [][PartialFrameNext
          => /\ obs'.fingers = Zero
             /\ \A k \in 1..Len(acts') :
                   acts'[k].name \in {"Screenshot", "RightClick", "SetVolume"}
             /\ select_mode_start' = 0
             /\ selecting_mode' => selecting_mode
             /\ img_canvas' = img_canvas]_vars

\* a 13-landmark frame in Mouse mode that emitted the right click
C24_Witness ==
    /\ step = "frame" /\ obs.n = 13 /\ obs.branch = "mouse"
    /\ acts = <<Act("RightClick", 0, 0)>> /\ ~click_armed

\* C25: the Canvas changes only in a Painter-mode dispatch frame that
\* performs the drawing gesture (index and middle up, more than 8
\* landmarks, ModeSelecting false) or on an explicit clear; every other
\* step leaves every Canvas pixel unchanged.
C25_CanvasChangesByDrawOrClear ==
    [][(img_canvas' # img_canvas)
          => \/ /\ step' = "frame" /\ obs'.branch = "painter" /\ obs'.n > 8
                /\ Up(obs'.fingers, 1) /\ Up(obs'.fingers, 2)
             \/ step' = "clear_canvas"]_vars

\* a drawn segment is still on the canvas after Stop Camera
C25_Witness ==
    /\ step = "stop_capture" /\ ~cap_open
    /\ img_canvas[<<155, 50>>] # WHITE

\* a drawn segment is still on the canvas in a ModeSelecting frame
C25_WitnessSelecting ==
    /\ step = "frame" /\ obs.branch = "select"
    /\ img_canvas[<<155, 50>>] # WHITE

\* C26: in every reachable state the screenshot hold timer and the
\* mode-select hold timer are not both set, and no single frame both emits
\* a Screenshot and sets ModeSelecting to true through the five-finger hold.
C26_TimersExclusive ==
    /\ [](~(screenshot_start # 0 /\ select_mode_start # 0))
    /\ [][(step' = "frame" /\ CountActs(acts', "Screenshot") > 0)
             => ~(~selecting_mode /\ selecting_mode')]_vars

\* a fist-classified frame starts the screenshot timer while ModeSelecting,
\* set by an earlier five-finger hold, is true: the mode-select timer is
\* unset
C26_Witness ==
    /\ step = "frame" /\ obs.n > 0 /\ obs.fingers = Zero
    /\ selecting_mode /\ screenshot_start = clock /\ select_mode_start = 0

\* what the two drivers are compared on: Mode, ModeSelecting, ClickArmState,
\* PainterTool, PenCursor and the actions emitted by the last frame
Shown(s) ==
    <<s.current_mode, s.selecting_mode, s.click_armed, s.brush_thickness,
      s.draw_color, s.draw_color_name, s.last_color, s.xp, s.yp, s.acts>>

\* the points of BothPoints are inside the same mode icon and the same tool
\* icons in both layouts
BothPointsAgree ==
    \A pos \in BothPoints :
        /\ HitModeIcon("main", pos) = HitModeIcon("gui", pos)
        /\ HitPainterIcons("main", pos) = HitPainterIcons("gui", pos)

\* C27: with no GUI button events, fed the same sequence of per-frame
\* inputs, gui_main.py and main.py produce the same Mode, ModeSelecting,
\* ClickArmState, PainterTool and PenCursor values and the same emitted
\* actions in every frame.
C27_DriversAgree ==
    ret.fn = "ProcessFrame" => Shown(ret.main) = Shown(ret.gui)

\* C27 (what holds): the two drivers agree in every frame up to the second
\* time ModeSelecting is turned on.
C27_DriversAgreeInFirstEpisode ==
    (ret.fn = "ProcessFrame" /\ ret.episodes < 2)
        => Shown(ret.main) = Shown(ret.gui)

\* ModeSelecting was turned on a second time: main.py has committed at once
\* and left it, gui_main.py is still selecting
C27_Witness ==
    /\ ret.fn = "ProcessFrame" /\ ret.episodes = 2 /\ BothPointsAgree
    /\ ~ret.main.selecting_mode /\ ret.gui.selecting_mode

\* C28: once ModeSelecting is true it becomes false only in a frame where a
\* hover commit occurs, that is a ModeSelecting frame that saw the fingertip
\* inside a mode icon it has been inside for more than HOVER_HOLD; every
\* other step (a no-hand frame, a fingertip outside every icon, another
\* finger signature, the passage of time, a GUI mode button) leaves
\* ModeSelecting true.
C28_SelectingEndsByCommitOnly ==
    [][(selecting_mode /\ ~selecting_mode')
          => /\ step' = "frame" /\ obs'.branch = "select" /\ obs'.n > 8
             /\ obs'.commit # -1
             /\ obs'.commit = HitModeIcon(driver, obs'.tip)
             /\ current_mode' = ModeNames[obs'.commit + 1]
             /\ hist.dwell_icon = obs'.commit
             /\ clock' - hist.dwell_since > HOVER_HOLD]_vars

\* ModeSelecting is still true after a mode button was pressed
C28_Witness ==
    /\ step = "set_mode" /\ selecting_mode /\ current_mode = "painter"

\* ModeSelecting is still true after a frame with a fist-classified hand
C28_WitnessFist ==
    /\ step = "frame" /\ obs.was_selecting /\ selecting_mode
    /\ obs.n > 0 /\ obs.fingers = Zero

\* ModeSelecting is still true after a frame without a hand
C28_WitnessNoHand ==
    /\ step = "frame" /\ obs.was_selecting /\ selecting_mode /\ obs.n = 0

=============================================================================
